---------------------------- MODULE Spec2Model ----------------------------
(***************************************************************************)
(* home-alog: a home inventory kept as a labelled property graph.          *)
(*                                                                         *)
(* The model covers the graph operations layer (database/operations.py),   *)
(* the store gateway (database/connection.py) and the result handling of   *)
(* the tool front end (server/mcp_server.py).  The persistent graph store  *)
(* is represented by its contents: a set of nodes, a bag of relationships  *)
(* and the set of node kinds that carry a uniqueness constraint on `name`. *)
(* Every Cypher statement the code issues is modelled by its effect on     *)
(* those contents and by the rows it returns.                              *)
(***************************************************************************)
EXTENDS Bags, FiniteSets, Integers, Sequences, TLC

(***************************************************************************)
(* Bounds                                                                  *)
(***************************************************************************)
\* number of distinct names the callers draw their arguments from
NumNames == 2
\* the store is not grown beyond this many nodes
MaxNodes == 3
\* callers that may be inside a call at the same time
NumCallers == 2
\* driver handles the gateway creates before the run is cut off
MaxHandles == 2

(***************************************************************************)
(* Schema                                                                  *)
(***************************************************************************)
NodeType == {"Item", "Location", "Category", "Person"}

RelationType == {"LOCATED_IN", "BELONGS_TO", "OWNED_BY", "CONTAINS"}

\* a Cypher null / Python None: a property holding Null is an absent property
Null == "NULL"

\* Names in ascending code-point order; a name's position is its sort rank.
NameList == <<"Garage", "Kitchen", "Living Room", "Samsung TV", "Tool Box">>

Names == {NameList[k] : k \in 1..NumNames}

\* the `value` argument of create_item: omitted (None) or an amount
ValueArgs == {Null, "799.99"}

ItemProperties(name, value) ==
    [name |-> name, description |-> "", purchase_date |-> Null,
     value |-> value, quantity |-> 1, notes |-> ""]

LocationProperties(name) ==
    [name |-> name, type |-> "room", description |-> ""]

CategoryProperties(name) ==
    [name |-> name, description |-> ""]

PersonProperties(name) ==
    [name |-> name]

(***************************************************************************)
(* State                                                                   *)
(***************************************************************************)
VARIABLES
    nodes,        \* stored nodes: records [kind, ord, props]
    edges,        \* stored relationships: a bag of [src, rel, dst]
    constraints,  \* node kinds with a uniqueness constraint on name
    initialized,  \* initialize_constraints has been run to completion
    ret,          \* outcome of the call that has just returned or raised
    before,       \* history: the store as that call found it
    calls,        \* the linking call each concurrent caller is inside
    connection,   \* the module global _connection: an instance, or 0 for None
    drivers,      \* the _driver of each Neo4jConnection instance, 0 for None
    handles,      \* every driver handle created so far: "open" or "closed"
    sessions,     \* the sessions that are open: records [id, handle]
    threads,      \* each caller's position in its gateway call, and its locals
    concurrent    \* history: two gateway calls have overlapped

vars == <<nodes, edges, constraints, initialized, ret, before, calls,
          connection, drivers, handles, sessions, threads, concurrent>>

\* the store and the callers of the graph operations
graph == <<nodes, edges, constraints, initialized, ret, before, calls>>

\* the gateway object and its callers
gateway == <<connection, drivers, handles, sessions, threads, concurrent>>

\* the contents of the store
Store == [nodes |-> nodes, edges |-> edges, constraints |-> constraints]

(***************************************************************************)
(* The store: Cypher clauses                                               *)
(***************************************************************************)
\* the pattern written without its label
MatchNodesAnyLabel(ns, kind, name) ==
    {n \in ns : name # Null /\ n.props.name = name}

\* MATCH (x:kind {name: $name}); a null parameter matches no node
MatchNodes(ns, kind, name) ==
    {n \in ns : n.kind = kind /\ name # Null /\ n.props.name = name}

\* one constraint on name for the nodes of every label
ViolatesAnyLabel(ns, cs, kind, name) ==
    kind \in cs /\ MatchNodesAnyLabel(ns, kind, name) # {}

\* the uniqueness constraint of `kind` rejects a second node with the name
Violates(ns, cs, kind, name) ==
    kind \in cs /\ MatchNodes(ns, kind, name) # {}

\* CREATE (x:kind {...}): a new node, distinct from every stored one
NewNode(ns, kind, props) ==
    [kind |-> kind,
     ord |-> Cardinality({n \in ns : n.kind = kind /\ n.props.name = props.name}) + 1,
     props |-> props]

Edge(src, rel, dst) == [src |-> src, rel |-> rel, dst |-> dst]

\* number of relationships of kind rel from src to dst
EdgeCount(es, src, rel, dst) == CopiesIn(Edge(src, rel, dst), es)

\* a CREATE written where the MERGE belongs
CreateEdge(es, src, rel, dst) ==
    es (+) SetToBag({Edge(src, rel, dst)})

\* the relationship moved: those of the kind that src already has are
\* deleted first
MoveEdge(es, src, rel, dst) ==
    LET kept == {e \in BagToSet(es) : ~(e.src = src /\ e.rel = rel)}
    IN [e \in kept |-> es[e]] (+) SetToBag({Edge(src, rel, dst)})

\* MERGE (src)-[:rel]->(dst): create the relationship unless one exists
MergeEdge(es, src, rel, dst) ==
    IF EdgeCount(es, src, rel, dst) > 0
    THEN es
    ELSE es (+) SetToBag({Edge(src, rel, dst)})

RECURSIVE MergeAll(_, _, _)
\* MERGE applied to every row {src, dst} of the preceding MATCH clauses
MergeAll(es, rows, rel) ==
    IF rows = {} THEN es
    ELSE LET r == CHOOSE x \in rows : TRUE
         IN MergeAll(MergeEdge(es, r[1], rel, r[2]), rows \ {r}, rel)


\* the second MATCH written without the label of its node
MatchPairsAnyLabel(ns, kind, a, b) ==
    MatchNodes(ns, "Item", a) \X {n \in ns : n.props.name = b}

\* MATCH (i:Item {name: $a}) MATCH (t:kind {name: $b}): one row per pair
MatchPairs(ns, kind, a, b) ==
    MatchNodes(ns, "Item", a) \X MatchNodes(ns, kind, b)

\* the pattern written without the name of its target
MatchPathsAnyTarget(ns, es, rel, kind, name) ==
    LET hits == {e \in BagToSet(es) : e.rel = rel /\ e.dst.kind = kind}
    IN [e \in hits |-> CopiesIn(e, es)]

\* MATCH (i:Item)-[:rel]->(t:kind {name: $name}): one row per relationship
MatchPaths(ns, es, rel, kind, name) ==
    LET hit(e) == /\ e.rel = rel
                  /\ e.src \in {n \in ns : n.kind = "Item"}
                  /\ e.dst \in MatchNodes(ns, kind, name)
        hits == {e \in BagToSet(es) : hit(e)}
    IN [e \in hits |-> CopiesIn(e, es)]

\* MATCH written for OPTIONAL MATCH: no row without the relationship
RequiredMatch(ns, es, i, rel, kind) ==
    {e.dst.props.name : e \in {x \in BagToSet(es) :
                                  /\ x.src = i
                                  /\ x.rel = rel
                                  /\ x.dst \in {n \in ns : n.kind = kind}}}

\* OPTIONAL MATCH (i)-[:rel]->(t:kind) RETURN t.name: the names of the
\* targets, or a single null when the item has no such relationship
OptionalMatch(ns, es, i, rel, kind) ==
    LET T == {e.dst : e \in {x \in BagToSet(es) :
                                /\ x.src = i
                                /\ x.rel = rel
                                /\ x.dst \in {n \in ns : n.kind = kind}}}
    IN IF T = {} THEN {Null} ELSE {t.props.name : t \in T}

\* the first OPTIONAL MATCH written with a fresh item pattern instead of
\* the bound i: the location of any item
DetailRowsUnanchored(ns, es, name) ==
    {[i |-> r[1], location |-> r[2], category |-> r[3], owner |-> r[4]] :
        r \in UNION {{i} \X (UNION {OptionalMatch(ns, es, j, "LOCATED_IN", "Location") :
                                       j \in {n \in ns : n.kind = "Item"}})
                         \X OptionalMatch(ns, es, i, "BELONGS_TO", "Category")
                         \X OptionalMatch(ns, es, i, "OWNED_BY", "Person") :
                     i \in MatchNodes(ns, "Item", name)}}

\* the rows of get_item_details' query
DetailRows(ns, es, name) ==
    {[i |-> r[1], location |-> r[2], category |-> r[3], owner |-> r[4]] :
        r \in UNION {{i} \X OptionalMatch(ns, es, i, "LOCATED_IN", "Location")
                         \X OptionalMatch(ns, es, i, "BELONGS_TO", "Category")
                         \X OptionalMatch(ns, es, i, "OWNED_BY", "Person") :
                     i \in MatchNodes(ns, "Item", name)}}

\* the rows of a result list, without their order
RowBag(s) ==
    [x \in {s[k] : k \in DOMAIN s} |-> Cardinality({k \in DOMAIN s : s[k] = x})]

\* every order in which the store may deliver the rows of a bag
RowOrders(B) ==
    {s \in [1..BagCardinality(B) -> BagToSet(B)] : RowBag(s) = B}

\* position of a name in ascending order; null sorts after every name
NameRank(name) ==
    IF name = Null THEN Len(NameList) + 1
    ELSE CHOOSE k \in 1..Len(NameList) : NameList[k] = name

\* the query written without its ORDER BY
Unordered(S) == RowOrders(SetToBag(S))

\* ORDER BY x.name: the rows ordered by name ascending
OrderByName(S) ==
    {s \in RowOrders(SetToBag(S)) :
        \A j, k \in 1..Len(s) :
            j < k => NameRank(s[j].props.name) <= NameRank(s[k].props.name)}

\* MATCH (x:kind) RETURN x ORDER BY x.name
MatchAllOrdered(ns, kind) == OrderByName({n \in ns : n.kind = kind})

(***************************************************************************)
(* Front end: the text call_tool answers with                              *)
(***************************************************************************)
\* the names call_tool dispatches on
ToolNames ==
    {"create_item", "create_location", "create_category",
     "link_item_to_location", "link_item_to_category",
     "find_items_in_location", "find_items_by_category", "get_item_details"}

\* the except clause narrowed to the store's exceptions and the result of
\* a link not looked at: another exception leaves call_tool (no text)
CallToolTextNarrow(name, status, flag, rows) ==
    IF name \notin ToolNames
    THEN "Unknown tool"
    ELSE IF status = "error" THEN Null
    ELSE IF name \in {"create_item", "create_location", "create_category"}
    THEN "Created"
    ELSE IF name \in {"link_item_to_location", "link_item_to_category"}
    THEN "Linked"
    ELSE IF name = "get_item_details"
    THEN (IF rows # <<>> THEN "Details" ELSE "not found")
    ELSE "Items"

\* the text call_tool returns for the outcome of the operation it called
CallToolText(name, status, flag, rows) ==
    IF name \notin ToolNames
    THEN "Unknown tool"
    ELSE IF status = "error" THEN "Error"
    ELSE IF name \in {"create_item", "create_location", "create_category"}
    THEN "Created"
    ELSE IF name \in {"link_item_to_location", "link_item_to_category"}
    THEN (IF flag THEN "Linked" ELSE "Failed to create link")
    ELSE IF name = "get_item_details"
    THEN (IF rows # <<>> THEN "Details" ELSE "not found")
    ELSE "Items"

(***************************************************************************)
(* What a caller gets back                                                 *)
(***************************************************************************)
\* op, args: the call; status "ok" (returned) or "error" (raised `error`);
\* flag: the boolean of a linking call; rows: the returned node(s), <<>>
\* standing for an empty list or None; text: what call_tool answers for
\* this outcome (Null for an operation that call_tool does not dispatch to);
\* requests: the execute_query calls the method made; failed (history): the
\* store was unreachable for, or rejected, a statement of the call.
Response(op, args, status, error, flag, rows) ==
    [op |-> op, args |-> args, status |-> status, error |-> error,
     flag |-> flag, rows |-> rows,
     text |-> IF op \in ToolNames
              THEN CallToolText(op, status, flag, rows) ELSE Null,
     requests |-> 1, failed |-> FALSE]

\* json.dumps(result) in call_tool, for a result that holds the node
\* objects of the driver as execute_query passes them on: the text, or,
\* where the driver's node type is not JSON serialisable, a TypeError that
\* the except clause of call_tool turns into its error text
Dumped(r) ==
    IF r.op \in ToolNames /\ r.rows # <<>>
    THEN {r, [r EXCEPT !.text = "Error"]}
    ELSE {r}

\* the store is unreachable or rejects the credentials: session.run raises
Raised(op, args) ==
    [Response(op, args, "error", "ServiceUnavailable", FALSE, <<>>)
        EXCEPT !.failed = TRUE]

Callers == 1..NumCallers

\* a caller that has not touched the gateway: no GraphOperations object yet
NoThread ==
    [pc |-> "start", op |-> "none", db |-> 0, driver |-> 0, session |-> 0,
     held |-> 0, made |-> 0, status |-> "none"]

\* the module as imported: _connection is None, no instance, no handle
NoGateway ==
    /\ connection = 0
    /\ drivers = <<>>
    /\ handles = <<>>
    /\ sessions = {}
    /\ threads = [p \in Callers |-> NoThread]
    /\ concurrent = FALSE

\* a caller that is inside no call
NoCall ==
    [pc |-> "idle", op |-> "none", args |-> <<>>, found |-> FALSE,
     status |-> "none", flag |-> FALSE]

\* no call is outstanding
NoResponse ==
    [op |-> "none", args |-> <<>>, status |-> "none", error |-> "",
     flag |-> FALSE, rows |-> <<>>, text |-> Null,
     requests |-> 0, failed |-> FALSE]

\* a caller enters an operation: the previous call has returned
Invoke ==
    /\ ret = NoResponse
    /\ before' = Store
    /\ UNCHANGED <<calls, gateway>>

\* the caller takes the outcome; the next call may start
Return ==
    /\ ret # NoResponse
    /\ ret' = NoResponse
    /\ before' = Store
    /\ UNCHANGED <<nodes, edges, constraints, initialized, calls, gateway>>

(***************************************************************************)
(* Initial state: a fresh store, no call made                              *)
(***************************************************************************)
Init ==
    /\ nodes = {}
    /\ edges = EmptyBag
    /\ constraints = {}
    /\ initialized = FALSE
    /\ ret = NoResponse
    /\ before = [nodes |-> {}, edges |-> EmptyBag, constraints |-> {}]
    /\ calls = [p \in Callers |-> NoCall]
    /\ NoGateway

(***************************************************************************)
(* Store gateway                                                           *)
(***************************************************************************)
\* Neo4jConnection.initialize_constraints: four CREATE CONSTRAINT statements,
\* each in its own try/except.  `failed` are the statements on which
\* session.run raised because the store was unreachable; a statement also
\* raises when the stored nodes of its kind already share a name.  Every
\* exception is printed and dropped, and the method returns normally.
\* The statements go to the session directly, not through execute_query.
initialize_constraints(failed) ==
    LET duplicated(k) ==
            \E n, m \in nodes :
                /\ n # m /\ n.kind = k /\ m.kind = k
                /\ n.props.name # Null /\ n.props.name = m.props.name
        raised == failed \cup {k \in NodeType : duplicated(k)}
    IN /\ Invoke
       /\ constraints' = constraints \cup (NodeType \ raised)
       /\ initialized' = TRUE
       /\ ret' = [Response("initialize_constraints", <<>>, "ok", "", FALSE, <<>>)
                     EXCEPT !.requests = 0, !.failed = (raised # {})]
       /\ UNCHANGED <<nodes, edges>>

\* the exception caught in the method and the `missing entity` value
\* returned in its place
UnservedAsMissing(op, args) ==
    /\ ret' = [Response(op, args, "ok", "", FALSE, <<>>) EXCEPT !.failed = TRUE]
    /\ UNCHANGED <<nodes, edges, constraints, initialized>>

\* the failed request sent once more before giving up
UnservedRetried(op, args) ==
    /\ ret' = [Raised(op, args) EXCEPT !.requests = 2]
    /\ UNCHANGED <<nodes, edges, constraints, initialized>>

\* execute_query when session.run raises: the exception reaches the caller
\* and the store is as it was
Unserved(op, args) ==
    /\ ret' = Raised(op, args)
    /\ UNCHANGED <<nodes, edges, constraints, initialized>>

(***************************************************************************)
(* Graph operations: node creation                                         *)
(***************************************************************************)
\* CREATE (x:kind {props}) RETURN x through execute_query, then
\* `return result[0]["x"] if result else {}`
CreateNode(op, args, kind, props, served) ==
    /\ Invoke
    /\ \/ ~served /\ Unserved(op, args)
       \/ /\ served
          /\ Violates(nodes, constraints, kind, props.name)
          /\ ret' = Response(op, args, "error", "ConstraintViolation", FALSE, <<>>)
          /\ UNCHANGED <<nodes, edges, constraints, initialized>>
       \/ /\ served
          /\ ~Violates(nodes, constraints, kind, props.name)
          /\ Cardinality(nodes) < MaxNodes
          /\ nodes' = nodes \cup {NewNode(nodes, kind, props)}
          /\ ret' \in Dumped(Response(op, args, "ok", "", FALSE,
                                      <<NewNode(nodes, kind, props).props>>))
          /\ UNCHANGED <<edges, constraints, initialized>>

create_item(name, value, served) ==
    CreateNode("create_item", <<name, value>>, "Item",
               ItemProperties(name, value), served)

create_location(name, served) ==
    CreateNode("create_location", <<name>>, "Location",
               LocationProperties(name), served)

create_category(name, served) ==
    CreateNode("create_category", <<name>>, "Category",
               CategoryProperties(name), served)

create_person(name, served) ==
    CreateNode("create_person", <<name>>, "Person",
               PersonProperties(name), served)

(***************************************************************************)
(* Graph operations: linking                                               *)
(***************************************************************************)
\* `>=` written for `>`
LinkResultAlways(rows) == Cardinality(rows) >= 0

\* `return len(result) > 0`
LinkResult(rows) == Cardinality(rows) > 0

\* the relationship kind and the target label in each operation's query
LinkQuery ==
    [link_item_to_location |-> [rel |-> "LOCATED_IN", kind |-> "Location"],
     link_item_to_category |-> [rel |-> "BELONGS_TO", kind |-> "Category"],
     link_item_to_owner    |-> [rel |-> "OWNED_BY",   kind |-> "Person"]]

\* MATCH (i:Item {name: $a}) MATCH (t:kind {name: $b})
\* MERGE (i)-[:rel]->(t) RETURN i, t  -- one request to the store
LinkItem(op, args, served) ==
    /\ Invoke
    /\ \/ ~served /\ Unserved(op, args)
       \/ /\ served
          /\ LET rows == MatchPairs(nodes, LinkQuery[op].kind, args[1], args[2])
             IN /\ edges' = MergeAll(edges, rows, LinkQuery[op].rel)
                /\ ret' = Response(op, args, "ok", "", LinkResult(rows), <<>>)
          /\ UNCHANGED <<nodes, constraints, initialized>>

link_item_to_location(item_name, location_name, served) ==
    LinkItem("link_item_to_location", <<item_name, location_name>>, served)

link_item_to_category(item_name, category_name, served) ==
    LinkItem("link_item_to_category", <<item_name, category_name>>, served)

link_item_to_owner(item_name, person_name, served) ==
    LinkItem("link_item_to_owner", <<item_name, person_name>>, served)

(***************************************************************************)
(* Graph operations: queries                                               *)
(***************************************************************************)
\* the target written as MERGE (t:kind {name: $name}): a search that
\* creates the node it does not find
FindItemsMerging(op, args, rel, kind, served) ==
    /\ Invoke
    /\ \/ ~served /\ Unserved(op, args)
       \/ /\ served
          /\ nodes' = IF MatchNodes(nodes, kind, args[1]) = {}
                      THEN nodes \cup {NewNode(nodes, kind, [name |-> args[1]])}
                      ELSE nodes
          /\ \E result \in RowOrders(MatchPaths(nodes, edges, rel, kind, args[1])) :
                ret' = Response(op, args, "ok", "", FALSE,
                                [k \in DOMAIN result |-> result[k].src.props])
          /\ UNCHANGED <<edges, constraints, initialized>>

\* MATCH (i:Item)-[:rel]->(t:kind {name: $name}) RETURN i, then
\* `[record["i"] for record in result]`; the store fixes no row order
FindItems(op, args, rel, kind, served) ==
    /\ Invoke
    /\ \/ ~served /\ Unserved(op, args)
       \/ /\ served
          /\ \E result \in RowOrders(MatchPaths(nodes, edges, rel, kind, args[1])) :
                ret' \in Dumped(Response(op, args, "ok", "", FALSE,
                                 [k \in DOMAIN result |-> result[k].src.props]))
          /\ UNCHANGED <<nodes, edges, constraints, initialized>>

find_items_in_location(location_name, served) ==
    FindItems("find_items_in_location", <<location_name>>,
              "LOCATED_IN", "Location", served)

find_items_by_category(category_name, served) ==
    FindItems("find_items_by_category", <<category_name>>,
              "BELONGS_TO", "Category", served)

\* details = dict(record["i"]) with location, category and owner set from
\* the record
Details(record) ==
    [k \in DOMAIN record.i.props \cup {"location", "category", "owner"} |->
        IF k = "location" THEN record.location
        ELSE IF k = "category" THEN record.category
        ELSE IF k = "owner" THEN record.owner
        ELSE record.i.props[k]]

\* `if not result: return None`, else the details of result[0]; which row
\* comes first is the store's choice
get_item_details(item_name, served) ==
    LET op == "get_item_details"
        args == <<item_name>>
        result == DetailRows(nodes, edges, item_name)
    IN /\ Invoke
       /\ \/ ~served /\ Unserved(op, args)
          \/ /\ served
             /\ result = {}
             /\ ret' = Response(op, args, "ok", "", FALSE, <<>>)
             /\ UNCHANGED <<nodes, edges, constraints, initialized>>
          \/ /\ served
             /\ \E record \in result :
                    ret' = Response(op, args, "ok", "", FALSE, <<Details(record)>>)
             /\ UNCHANGED <<nodes, edges, constraints, initialized>>

\* MATCH (x:kind) RETURN x ORDER BY x.name, then
\* `[record["x"] for record in result]`
ListAll(op, kind, served) ==
    /\ Invoke
    /\ \/ ~served /\ Unserved(op, <<>>)
       \/ /\ served
          /\ \E result \in MatchAllOrdered(nodes, kind) :
                ret' = Response(op, <<>>, "ok", "", FALSE,
                                [k \in DOMAIN result |-> result[k].props])
          /\ UNCHANGED <<nodes, edges, constraints, initialized>>

list_all_locations(served) == ListAll("list_all_locations", "Location", served)

list_all_categories(served) == ListAll("list_all_categories", "Category", served)

(***************************************************************************)
(* Front end: the calls that do not reach the operations layer             *)
(***************************************************************************)
\* operations of GraphOperations that call_tool has no branch for
UnlistedNames == {"create_person", "list_all_locations"}

\* call_tool with a name none of its branches tests for, which falls to the
\* final else, or with a known name and arguments that lack a required
\* key: `**arguments` or `arguments[...]` raises before a query is sent and
\* the except clause answers.  status: call_tool has returned; error: the
\* exception it caught.
call_tool(name) ==
    /\ Invoke
    /\ ret' = [NoResponse EXCEPT
                  !.op = "call_tool",
                  !.args = <<name>>,
                  !.status = "ok",
                  !.error = IF name \in ToolNames THEN "TypeError" ELSE "",
                  !.text = CallToolText(name, "error", FALSE, <<>>)]
    /\ UNCHANGED <<nodes, edges, constraints, initialized>>

(***************************************************************************)
(* Specification: a caller invokes the operations one after another, in    *)
(* any order and with any arguments                                        *)
(***************************************************************************)
\* the name given to a creation: one of the names, or None
NameArgs == Names \cup {Null}

Next ==
    \/ \E failed \in SUBSET NodeType : initialize_constraints(failed)
    \/ \E n \in NameArgs, v \in ValueArgs, served \in BOOLEAN :
           create_item(n, v, served)
    \/ \E n \in NameArgs, served \in BOOLEAN : create_location(n, served)
    \/ \E n \in NameArgs, served \in BOOLEAN : create_category(n, served)
    \/ \E n \in NameArgs, served \in BOOLEAN : create_person(n, served)
    \/ \E a, b \in Names, served \in BOOLEAN :
           link_item_to_location(a, b, served)
    \/ \E a, b \in Names, served \in BOOLEAN :
           link_item_to_category(a, b, served)
    \/ \E a, b \in Names, served \in BOOLEAN :
           link_item_to_owner(a, b, served)
    \/ \E n \in Names, served \in BOOLEAN :
           find_items_in_location(n, served)
    \/ \E n \in Names, served \in BOOLEAN :
           find_items_by_category(n, served)
    \/ \E n \in Names, served \in BOOLEAN : get_item_details(n, served)
    \/ \E served \in BOOLEAN : list_all_locations(served)
    \/ \E served \in BOOLEAN : list_all_categories(served)
    \/ \E name \in ToolNames \cup UnlistedNames : call_tool(name)
    \/ Return

Spec == Init /\ [][Next]_vars

(***************************************************************************)
(* Concurrent linking.  The operations layer holds no lock and every call  *)
(* opens its own session, so linking calls of several callers overlap.     *)
(* Between entering the method and returning, a linking call sends its     *)
(* one query; the store runs a query as one transaction.                   *)
(***************************************************************************)
\* the server after start-up: main() has run initialize_constraints and
\* the store has accepted the four constraints
InitServing ==
    /\ nodes = {}
    /\ edges = EmptyBag
    /\ constraints = NodeType
    /\ initialized = TRUE
    /\ ret = NoResponse
    /\ before = [nodes |-> {}, edges |-> EmptyBag, constraints |-> {}]
    /\ calls = [p \in Callers |-> NoCall]
    /\ NoGateway

\* a creation call of some client, from its CREATE to its return
Create(kind, props) ==
    /\ ~Violates(nodes, constraints, kind, props.name)
    /\ Cardinality(nodes) < MaxNodes
    /\ nodes' = nodes \cup {NewNode(nodes, kind, props)}
    /\ UNCHANGED <<edges, constraints, initialized, ret, before, calls, gateway>>

\* caller p enters link_item_to_location, link_item_to_category or
\* link_item_to_owner; found (history): both endpoints are stored
LinkCall(p, op, item_name, target_name) ==
    /\ calls[p].pc = "idle"
    /\ calls' = [calls EXCEPT ![p] =
                    [pc |-> "called", op |-> op,
                     args |-> <<item_name, target_name>>,
                     found |-> MatchPairs(nodes, LinkQuery[op].kind,
                                          item_name, target_name) # {},
                     status |-> "none", flag |-> FALSE]]
    /\ UNCHANGED <<nodes, edges, constraints, initialized, ret, before, gateway>>

\* the lookup of the endpoints and the creation of the relationship sent
\* as two queries: what the lookup saw may be stale when the creation runs
LinkRequestSplit(p, served) ==
    LET call == calls[p]
        rows == MatchPairs(nodes, LinkQuery[call.op].kind,
                           call.args[1], call.args[2])
        unlinked == {r \in rows :
                        EdgeCount(edges, r[1], LinkQuery[call.op].rel, r[2]) = 0}
    IN \/ /\ call.pc = "called"
          /\ served
          /\ calls' = [calls EXCEPT ![p] =
                          [pc |-> "looked", op |-> call.op, args |-> call.args,
                           found |-> call.found, status |-> "none",
                           flag |-> LinkResult(rows), todo |-> unlinked]]
          /\ UNCHANGED <<nodes, edges, constraints, initialized, ret, before,
                         gateway>>
       \/ /\ call.pc = "looked"
          /\ edges' = edges (+) SetToBag({Edge(r[1], LinkQuery[call.op].rel, r[2]) :
                                              r \in call.todo})
          /\ calls' = [calls EXCEPT ![p] =
                          [pc |-> "returned", op |-> call.op, args |-> call.args,
                           found |-> call.found, status |-> "ok",
                           flag |-> call.flag]]
          /\ UNCHANGED <<nodes, constraints, initialized, ret, before, gateway>>

\* execute_query runs caller p's query: MATCH, MATCH, MERGE, RETURN as one
\* request; session.run raises when the store is unreachable
LinkRequest(p, served) ==
    LET call == calls[p]
        rows == MatchPairs(nodes, LinkQuery[call.op].kind,
                           call.args[1], call.args[2])
    IN /\ call.pc = "called"
       /\ edges' = IF served THEN MergeAll(edges, rows, LinkQuery[call.op].rel)
                   ELSE edges
       /\ calls' = [calls EXCEPT ![p] =
                       [pc |-> "returned", op |-> call.op, args |-> call.args,
                        found |-> call.found,
                        status |-> IF served THEN "ok" ELSE "error",
                        flag |-> served /\ LinkResult(rows)]]
       /\ UNCHANGED <<nodes, constraints, initialized, ret, before, gateway>>

\* caller p has its boolean or its exception and leaves the method
LinkReturn(p) ==
    /\ calls[p].pc = "returned"
    /\ calls' = [calls EXCEPT ![p] = NoCall]
    /\ UNCHANGED <<nodes, edges, constraints, initialized, ret, before, gateway>>

\* creations here are given names: a node without a name is matched by no
\* linking query
NextServing ==
    \/ \E n \in Names, v \in ValueArgs : Create("Item", ItemProperties(n, v))
    \/ \E n \in Names : Create("Location", LocationProperties(n))
    \/ \E n \in Names : Create("Category", CategoryProperties(n))
    \/ \E n \in Names : Create("Person", PersonProperties(n))
    \/ \E p \in Callers, op \in DOMAIN LinkQuery, a, b \in Names :
           LinkCall(p, op, a, b)
    \/ \E p \in Callers, served \in BOOLEAN : LinkRequest(p, served)
    \/ \E p \in Callers : LinkReturn(p)

SpecServing == InitServing /\ [][NextServing]_vars

(***************************************************************************)
(* The store gateway under several callers.  Each caller is a thread that  *)
(* builds its GraphOperations object (get_connection) and then calls       *)
(* execute_query and close on the gateway.  Nothing in connection.py       *)
(* takes a lock, so the threads interleave between any two reads or        *)
(* writes of the shared _connection and _driver.                           *)
(***************************************************************************)
\* caller q is inside a gateway call
InCall(q) == threads[q].pc \notin {"start", "ready"}

\* caller p moves inside its call; the move overlaps the call of another
\* caller that is inside one
Step(p) ==
    /\ concurrent' = (concurrent \/ \E q \in Callers \ {p} : InCall(q))
    /\ UNCHANGED graph

\* get_connection, `if _connection is None:`
get_connection(p) ==
    /\ threads[p].pc = "start"
    /\ threads' = [threads EXCEPT ![p] =
                      [NoThread EXCEPT
                          !.op = "get_connection",
                          !.made = Len(handles),
                          !.pc = IF connection = 0 THEN "new_connection"
                                 ELSE "return_connection"]]
    /\ UNCHANGED <<connection, drivers, handles, sessions>>
    /\ Step(p)

\* `_connection = Neo4jConnection()`; __init__ sets _driver to None
new_connection(p) ==
    /\ threads[p].pc = "new_connection"
    /\ drivers' = Append(drivers, 0)
    /\ connection' = Len(drivers) + 1
    /\ threads' = [threads EXCEPT ![p].pc = "return_connection"]
    /\ UNCHANGED <<handles, sessions>>
    /\ Step(p)

\* `return _connection`, kept as self.db
return_connection(p) ==
    /\ threads[p].pc = "return_connection"
    /\ threads' = [threads EXCEPT ![p].db = connection,
                                  ![p].status = "ok",
                                  ![p].pc = "returned"]
    /\ UNCHANGED <<connection, drivers, handles, sessions>>
    /\ Step(p)

\* execute_query enters session(), which enters connect():
\* `if self._driver is None:`
connect(p) ==
    /\ threads[p].pc = "ready"
    /\ threads' = [threads EXCEPT ![p].op = "execute_query",
                                  ![p].held = drivers[threads[p].db],
                                  ![p].made = Len(handles),
                                  ![p].status = "none",
                                  ![p].pc = IF drivers[threads[p].db] = 0
                                            THEN "new_driver"
                                            ELSE "return_driver"]
    /\ UNCHANGED <<connection, drivers, handles, sessions>>
    /\ Step(p)

\* `self._driver = GraphDatabase.driver(...)`
new_driver(p) ==
    /\ threads[p].pc = "new_driver"
    /\ Len(handles) < MaxHandles
    /\ handles' = Append(handles, "open")
    /\ drivers' = [drivers EXCEPT ![threads[p].db] = Len(handles) + 1]
    /\ threads' = [threads EXCEPT ![p].pc = "return_driver"]
    /\ UNCHANGED <<connection, sessions>>
    /\ Step(p)

\* `return self._driver`, kept as the local `driver` of session()
return_driver(p) ==
    /\ threads[p].pc = "return_driver"
    /\ threads' = [threads EXCEPT ![p].driver = drivers[threads[p].db],
                                  ![p].pc = "session"]
    /\ UNCHANGED <<connection, drivers, handles, sessions>>
    /\ Step(p)

\* a session object no open session has
NewSession ==
    CHOOSE k \in 1..(Cardinality(sessions) + 1) :
        \A x \in sessions : x.id # k

\* `session = driver.session()`.  Without a driver (close has reset
\* _driver meanwhile) the attribute access raises; on a closed driver the
\* call raises or returns a session, depending on the driver's version.
session(p) ==
    LET d == threads[p].driver
        raise == /\ threads' = [threads EXCEPT ![p].status = "error",
                                               ![p].pc = "returned"]
                 /\ UNCHANGED sessions
        open == /\ sessions' = sessions \cup {[id |-> NewSession, handle |-> d]}
                /\ threads' = [threads EXCEPT ![p].session = NewSession,
                                              ![p].pc = "run"]
    IN /\ threads[p].pc = "session"
       /\ \/ d = 0 /\ raise
          \/ d # 0 /\ handles[d] = "closed" /\ raise
          \/ d # 0 /\ open
       /\ UNCHANGED <<connection, drivers, handles>>
       /\ Step(p)

\* the query run outside a try/finally: an exception leaves the method
\* before session.close()
session_run_unguarded(p, served) ==
    /\ threads[p].pc = "run"
    /\ threads' = [threads EXCEPT ![p].status = IF served THEN "none" ELSE "error",
                                  ![p].pc = IF served THEN "rows" ELSE "returned"]
    /\ UNCHANGED <<connection, drivers, handles, sessions>>
    /\ Step(p)

\* `result = session.run(query, parameters or {})` inside the with block:
\* when it raises, control passes to the finally clause of session()
session_run(p, served) ==
    /\ threads[p].pc = "run"
    /\ threads' = [threads EXCEPT ![p].status = IF served THEN "none" ELSE "error",
                                  ![p].pc = IF served THEN "rows" ELSE "finally"]
    /\ UNCHANGED <<connection, drivers, handles, sessions>>
    /\ Step(p)

\* `return [dict(record) for record in result]`: reading the rows may raise
\* as well; either way the with block is left through finally
read_rows(p, served) ==
    /\ threads[p].pc = "rows"
    /\ threads' = [threads EXCEPT ![p].status = IF served THEN "ok" ELSE "error",
                                  ![p].pc = "finally"]
    /\ UNCHANGED <<connection, drivers, handles, sessions>>
    /\ Step(p)

\* `finally: session.close()`; then execute_query returns or re-raises
session_close(p) ==
    /\ threads[p].pc = "finally"
    /\ sessions' = {x \in sessions : x.id # threads[p].session}
    /\ threads' = [threads EXCEPT ![p].pc = "returned"]
    /\ UNCHANGED <<connection, drivers, handles>>
    /\ Step(p)

\* Neo4jConnection.close, `if self._driver is not None:`
close(p) ==
    /\ threads[p].pc = "ready"
    /\ threads' = [threads EXCEPT ![p].op = "close",
                                  ![p].held = drivers[threads[p].db],
                                  ![p].made = Len(handles),
                                  ![p].status = IF drivers[threads[p].db] = 0
                                                THEN "ok" ELSE "none",
                                  ![p].pc = IF drivers[threads[p].db] = 0
                                            THEN "returned"
                                            ELSE "close_driver"]
    /\ UNCHANGED <<connection, drivers, handles, sessions>>
    /\ Step(p)

\* `self._driver.close()`; _driver is read again and may have been reset
close_driver(p) ==
    LET d == drivers[threads[p].db]
    IN /\ threads[p].pc = "close_driver"
       /\ \/ /\ d = 0
             /\ threads' = [threads EXCEPT ![p].status = "error",
                                           ![p].pc = "returned"]
             /\ UNCHANGED handles
          \/ /\ d # 0
             /\ handles' = [handles EXCEPT ![d] = "closed"]
             /\ threads' = [threads EXCEPT ![p].pc = "reset_driver"]
       /\ UNCHANGED <<connection, drivers, sessions>>
       /\ Step(p)

\* the handle closed and still kept
keep_driver(p) ==
    /\ threads[p].pc = "reset_driver"
    /\ threads' = [threads EXCEPT ![p].status = "ok", ![p].pc = "returned"]
    /\ UNCHANGED <<connection, drivers, handles, sessions>>
    /\ Step(p)

\* `self._driver = None`
reset_driver(p) ==
    /\ threads[p].pc = "reset_driver"
    /\ drivers' = [drivers EXCEPT ![threads[p].db] = 0]
    /\ threads' = [threads EXCEPT ![p].status = "ok", ![p].pc = "returned"]
    /\ UNCHANGED <<connection, handles, sessions>>
    /\ Step(p)

\* the caller has its result or its exception; the locals of the call are
\* gone
Done(p) ==
    /\ threads[p].pc = "returned"
    /\ threads' = [threads EXCEPT ![p].pc = "ready",
                                  ![p].driver = 0,
                                  ![p].session = 0]
    /\ UNCHANGED <<connection, drivers, handles, sessions>>
    /\ Step(p)

NextGateway ==
    \E p \in Callers :
        \/ get_connection(p)
        \/ new_connection(p)
        \/ return_connection(p)
        \/ connect(p)
        \/ new_driver(p)
        \/ return_driver(p)
        \/ session(p)
        \/ \E served \in BOOLEAN : session_run(p, served)
        \/ \E served \in BOOLEAN : read_rows(p, served)
        \/ session_close(p)
        \/ close(p)
        \/ close_driver(p)
        \/ reset_driver(p)
        \/ Done(p)

SpecGateway == Init /\ [][NextGateway]_vars

(***************************************************************************)
(* Vocabulary of the properties                                            *)
(***************************************************************************)
CreateOps == {"create_item", "create_location", "create_category", "create_person"}

LinkOps == {"link_item_to_location", "link_item_to_category", "link_item_to_owner"}

FindOps == {"find_items_in_location", "find_items_by_category"}

ListOps == {"list_all_locations", "list_all_categories"}

QueryOps == FindOps \cup ListOps \cup {"get_item_details"}

\* the node kind an operation creates, links an item to, searches by or lists
KindOf(op) ==
    CASE op \in {"create_item", "get_item_details"} -> "Item"
      [] op \in {"create_location", "link_item_to_location",
                 "find_items_in_location", "list_all_locations"} -> "Location"
      [] op \in {"create_category", "link_item_to_category",
                 "find_items_by_category", "list_all_categories"} -> "Category"
      [] op \in {"create_person", "link_item_to_owner"} -> "Person"

\* the relationship kind an operation creates or follows
RelOf(op) ==
    CASE op \in {"link_item_to_location", "find_items_in_location"} -> "LOCATED_IN"
      [] op \in {"link_item_to_category", "find_items_by_category"} -> "BELONGS_TO"
      [] op = "link_item_to_owner" -> "OWNED_BY"

\* the stored nodes of a kind that carry a name
Named(ns, kind, name) ==
    {n \in ns : n.kind = kind /\ n.props.name = name}

\* how many relationships of kind rel lead from node i to node t
Copies(es, i, rel, t) == CopiesIn([src |-> i, rel |-> rel, dst |-> t], es)

\* the call that has just ended reached the store and was answered
Served == ret.status # "none" /\ ret.error # "ServiceUnavailable"

\* the stored endpoints a concurrent caller's linking call names
ItemsOf(p) == Named(nodes, "Item", calls[p].args[1])

TargetsOf(p) == Named(nodes, KindOf(calls[p].op), calls[p].args[2])

\* the endpoints a linking call names, as the call found them
ItemsBefore == Named(before.nodes, "Item", ret.args[1])

TargetsBefore == Named(before.nodes, KindOf(ret.op), ret.args[2])

(***************************************************************************)
(* C1  Once initialize_constraints has been run, a creation that returns   *)
(* a node never names a node of its kind that was already stored, and the  *)
(* store holds no two nodes of one kind with the same name.                *)
(***************************************************************************)
C1_UniquePerKind ==
    initialized =>
        /\ (ret.op \in CreateOps /\ ret.status = "ok" /\ ret.args[1] # Null)
               => Named(before.nodes, KindOf(ret.op), ret.args[1]) = {}
        /\ \A n, m \in nodes :
               (n.kind = m.kind /\ n.props.name = m.props.name
                    /\ n.props.name # Null) => n = m

(***************************************************************************)
(* C2  Link idempotence.  A linking call that finds both endpoints         *)
(* returns true and leaves exactly one relationship of its kind from the   *)
(* item to the target; when that relationship was already there, as on     *)
(* the second and every later call with the same names, the store after    *)
(* the call equals the store before it.                                    *)
(***************************************************************************)
C2_LinkIdempotent ==
    (ret.op \in LinkOps /\ ret.status = "ok"
        /\ ItemsBefore # {} /\ TargetsBefore # {})
    => /\ ret.flag
       /\ \A i \in ItemsBefore, t \in TargetsBefore :
              Copies(edges, i, RelOf(ret.op), t) = 1
       /\ (\A i \in ItemsBefore, t \in TargetsBefore :
               Copies(before.edges, i, RelOf(ret.op), t) = 1)
          => Store = before

\* a linking call repeated on a pair that an earlier call linked
C2_Witness ==
    /\ ret.op \in LinkOps /\ ret.status = "ok" /\ ret.flag
    /\ ItemsBefore # {} /\ TargetsBefore # {}
    /\ \A i \in ItemsBefore, t \in TargetsBefore :
           Copies(before.edges, i, RelOf(ret.op), t) = 1

(***************************************************************************)
(* C3  The boolean a linking call returns is true exactly when an Item     *)
(* with the first name and a node of the operation's target kind with the  *)
(* second name were stored when it ran; when it is true the relationship   *)
(* between them is in the store afterwards.                                *)
(***************************************************************************)
C3_LinkResult ==
    (ret.op \in LinkOps /\ ret.status = "ok")
    => /\ ret.flag <=> (ItemsBefore # {} /\ TargetsBefore # {})
       /\ ret.flag => \A i \in ItemsBefore, t \in TargetsBefore :
                          Copies(edges, i, RelOf(ret.op), t) >= 1

\* a linking call that returned true and created the relationship
C3_Witness ==
    /\ ret.op \in LinkOps /\ ret.status = "ok" /\ ret.flag
    /\ \E i \in ItemsBefore, t \in TargetsBefore :
           /\ Copies(before.edges, i, RelOf(ret.op), t) = 0
           /\ Copies(edges, i, RelOf(ret.op), t) = 1

(***************************************************************************)
(* C4  A linking call that the store answers and that names a missing      *)
(* item, a missing target or both returns false instead of raising, and    *)
(* the store is as before: no relationship and no node is created.  The    *)
(* front end answers with its failure message.                             *)
(***************************************************************************)
C4_LinkMissingEndpoint ==
    (ret.op \in LinkOps /\ Served /\ (ItemsBefore = {} \/ TargetsBefore = {}))
    => /\ ret.status = "ok"
       /\ ~ret.flag
       /\ Store = before
       /\ ret.op \in ToolNames => ret.text = "Failed to create link"

\* an item that was never created, linked to a location that exists; a node
\* of another kind carries the item's name
C4_Witness ==
    /\ ret.op = "link_item_to_location" /\ ret.status = "ok" /\ ~ret.flag
    /\ ItemsBefore = {} /\ TargetsBefore # {}
    /\ Named(nodes, "Category", ret.args[1]) # {}

(***************************************************************************)
(* C5  However the linking calls of several callers interleave, no two     *)
(* relationships of one kind are ever stored between the same two nodes,   *)
(* and every call that was made when both endpoints existed and that the   *)
(* store answered returns true with exactly one relationship between       *)
(* them: a call's lookup and create-if-absent are one request.             *)
(***************************************************************************)
C5_ConcurrentLinks ==
    /\ \A e \in DOMAIN edges : edges[e] = 1
    /\ \A p \in Callers :
           (calls[p].pc = "returned" /\ calls[p].status = "ok" /\ calls[p].found)
           => /\ calls[p].flag
              /\ \E i \in ItemsOf(p), t \in TargetsOf(p) :
                     Copies(edges, i, RelOf(calls[p].op), t) = 1

\* two callers inside the same linking call with the same names at the
\* same time, both answered true, one relationship stored
C5_Witness ==
    \E p, q \in Callers :
        /\ p # q
        /\ calls[p].pc = "returned" /\ calls[q].pc = "returned"
        /\ calls[p].op = calls[q].op /\ calls[p].args = calls[q].args
        /\ calls[p].found /\ calls[q].found
        /\ calls[p].flag /\ calls[q].flag
        /\ BagCardinality(edges) = 1

(***************************************************************************)
(* C6  find_items_in_location(l) and find_items_by_category(c) return the  *)
(* properties of the Items that have a relationship of the operation's     *)
(* kind to a node of its target kind with that name: one row for each      *)
(* such relationship and no other row, hence every linked Item once when   *)
(* one node carries the name and the empty list when none does or nothing  *)
(* is linked to it.  The properties are those given to create_item.        *)
(***************************************************************************)
LinkedPairs(op, name) ==
    {p \in {n \in nodes : n.kind = "Item"} \X Named(nodes, KindOf(op), name) :
        Copies(edges, p[1], RelOf(op), p[2]) >= 1}

FieldOf(value, i, rel, kind) ==
    LET T == {t \in nodes : t.kind = kind /\ Copies(edges, i, rel, t) >= 1}
    IN IF T = {} THEN value = Null ELSE \E t \in T : value = t.props.name

C7_ItemDetails ==
    (ret.op = "get_item_details" /\ ret.status = "ok")
    => /\ Named(before.nodes, "Item", ret.args[1]) # {} => ret.rows # <<>>
       /\ ret.rows # <<>> =>
              \E i \in Named(nodes, "Item", ret.args[1]) :
                  LET d == ret.rows[1]
                  IN /\ DOMAIN d = DOMAIN i.props \cup {"location", "category", "owner"}
                     /\ \A k \in DOMAIN i.props : d[k] = i.props[k]
                     /\ FieldOf(d.location, i, "LOCATED_IN", "Location")
                     /\ FieldOf(d.category, i, "BELONGS_TO", "Category")
                     /\ FieldOf(d.owner, i, "OWNED_BY", "Person")

\* an item linked to a location only
C7_Witness ==
    /\ ret.op = "get_item_details" /\ ret.status = "ok" /\ ret.rows # <<>>
    /\ ret.rows[1].location = "Garage"
    /\ ret.rows[1].category = Null
    /\ ret.rows[1].owner = Null

(***************************************************************************)
(* C8  get_item_details of a name that no Item carries returns None and    *)
(* raises nothing, also when a node of another kind carries the name; the  *)
(* front end answers that the item was not found.                          *)
(***************************************************************************)
C8_AbsentItem ==
    (ret.op = "get_item_details" /\ Served
        /\ Named(before.nodes, "Item", ret.args[1]) = {})
    => /\ ret.status = "ok"
       /\ ret.rows = <<>>
       /\ ret.text = "not found"

\* the name asked for is the name of a Location
C8_Witness ==
    /\ ret.op = "get_item_details" /\ ret.status = "ok" /\ ret.rows = <<>>
    /\ Named(nodes, "Location", ret.args[1]) # {}
    /\ ret.text = "not found"

(***************************************************************************)
(* C9  list_all_locations and list_all_categories return every stored      *)
(* node of their kind, each once, in ascending order of name (a node       *)
(* without a name after the named ones).                                   *)
(***************************************************************************)
NotAfter(a, b) ==
    \E j, k \in 1..Len(NameList) : j <= k /\ NameList[j] = a /\ NameList[k] = b

C9_ListOrdered ==
    (ret.op \in ListOps /\ ret.status = "ok")
    => LET S == {n \in nodes : n.kind = KindOf(ret.op)}
       IN /\ Len(ret.rows) = Cardinality(S)
          /\ \A n \in S :
                 Cardinality({k \in DOMAIN ret.rows : ret.rows[k] = n.props})
                     = Cardinality({m \in S : m.props = n.props})
          /\ \A j, k \in DOMAIN ret.rows :
                 j < k => \/ ret.rows[k].name = Null
                          \/ /\ ret.rows[j].name # Null
                             /\ NotAfter(ret.rows[j].name, ret.rows[k].name)

\* two locations, listed Garage before Kitchen
C9_Witness ==
    /\ ret.op = "list_all_locations" /\ ret.status = "ok"
    /\ Len(ret.rows) = 2
    /\ ret.rows[1].name = "Garage" /\ ret.rows[2].name = "Kitchen"

(***************************************************************************)
(* C10  The five query operations leave the store as they found it:        *)
(* nodes, node properties, relationships and constraints, whatever the     *)
(* argument and whether or not the store answered.                         *)
(***************************************************************************)
C10_QueriesReadOnly ==
    ret.op \in QueryOps => Store = before

\* a search by a name no Category carries, in a store that holds a
\* relationship
C10_Witness ==
    /\ ret.op = "find_items_by_category" /\ ret.status = "ok"
    /\ Named(nodes, "Category", ret.args[1]) = {}
    /\ edges # EmptyBag

\* the operations of GraphOperations
GraphOps == CreateOps \cup LinkOps \cup QueryOps

(***************************************************************************)
(* C11  initialize_constraints returns normally only when every constraint *)
(* statement was accepted (a constraint that is already there is accepted  *)
(* by IF NOT EXISTS); when the store is unreachable for a statement or     *)
(* rejects it, the call raises.  Hence once initialization has been run    *)
(* and returned, the four uniqueness constraints are in place.             *)
(***************************************************************************)
C11_InitFailureIsFatal ==
    /\ (ret.op = "initialize_constraints" /\ ret.failed) => ret.status = "error"
    /\ (ret.op = "initialize_constraints" /\ ret.status = "ok")
           => constraints = NodeType

(***************************************************************************)
(* C13  When the store does not answer the request of a graph operation    *)
(* (unreachable, credentials rejected), the operation raises the store's   *)
(* error, which is not the error of a duplicate name; it never returns     *)
(* false, None or an empty list in its place, and the front end answers    *)
(* with an error text, not with `not found` or its link failure message.   *)
(***************************************************************************)
C13_StoreFailurePropagates ==
    (ret.op \in GraphOps /\ ret.failed)
    => /\ ret.status = "error"
       /\ ret.error = "ServiceUnavailable"
       /\ ret.op \in ToolNames => ret.text = "Error"

\* the store fails under a linking call whose two endpoints are stored
C13_Witness ==
    /\ ret.op \in LinkOps /\ ret.failed /\ ret.status = "error"
    /\ ItemsBefore # {} /\ TargetsBefore # {}

(***************************************************************************)
(* C14  A creation that is given no name is rejected before a request is   *)
(* sent to the store: it raises, has issued no request and leaves the      *)
(* store as it was.  No stored node is without a name.                     *)
(***************************************************************************)
C14_NameRequired ==
    /\ (ret.op \in CreateOps /\ ret.args[1] = Null)
           => /\ ret.status = "error"
              /\ ret.requests = 0
              /\ Store = before
    /\ \A n \in nodes : n.props.name # Null

(***************************************************************************)
(* C15  The store only grows.  Whatever the call that has just ended and   *)
(* however it ended, every node stored before it is stored after it with   *)
(* the same properties and every relationship is still there; a creation   *)
(* adds at most one node and no relationship, a linking call at most one   *)
(* relationship and no node, and a creation rejected as a duplicate        *)
(* leaves the store as it was.  Stated for the calls made after            *)
(* initialize_constraints has been run, as main() runs it at start-up.     *)
(***************************************************************************)
C15_StoreOnlyGrows ==
    initialized =>
        /\ before.nodes \subseteq nodes
        /\ before.edges \sqsubseteq edges
        /\ ret.op \in CreateOps
               => /\ Cardinality(nodes \ before.nodes) <= 1
                  /\ edges = before.edges
        /\ ret.op \in LinkOps
               => /\ BagCardinality(edges) <= BagCardinality(before.edges) + 1
                  /\ nodes = before.nodes
        /\ (ret.op \in CreateOps /\ ret.error = "ConstraintViolation")
               => Store = before

\* find_items_in_location(location_name) would return item i
FoundIn(i, location_name) ==
    \E e \in DOMAIN MatchPaths(nodes, edges, "LOCATED_IN", "Location",
                               location_name) : e.src = i

(***************************************************************************)
(* C16  link_item_to_location of an Item that is already in a location,    *)
(* given another stored location, returns true and adds a LOCATED_IN       *)
(* relationship to the new location while the one to the old location      *)
(* stays: the item then has both, and the query of                         *)
(* find_items_in_location returns it for the name of the old and for the   *)
(* name of the new location.                                               *)
(***************************************************************************)
C16_SecondLocationKept ==
    (ret.op = "link_item_to_location" /\ ret.status = "ok"
        /\ ItemsBefore # {} /\ TargetsBefore # {})
    => /\ ret.flag
       /\ \A i \in ItemsBefore :
              /\ FoundIn(i, ret.args[2])
              /\ \A a \in {n \in before.nodes : n.kind = "Location"} :
                     Copies(before.edges, i, "LOCATED_IN", a) >= 1
                     => /\ Copies(edges, i, "LOCATED_IN", a)
                              = Copies(before.edges, i, "LOCATED_IN", a)
                        /\ FoundIn(i, a.props.name)

\* an item in the Garage linked to the Kitchen: two LOCATED_IN relationships
C16_Witness ==
    /\ ret.op = "link_item_to_location" /\ ret.status = "ok" /\ ret.flag
    /\ ret.args[2] = "Kitchen"
    /\ \E i \in ItemsBefore, a \in Named(nodes, "Location", "Garage"),
           b \in Named(nodes, "Location", "Kitchen") :
           /\ Copies(before.edges, i, "LOCATED_IN", a) = 1
           /\ Copies(before.edges, i, "LOCATED_IN", b) = 0
           /\ Copies(edges, i, "LOCATED_IN", a) = 1
           /\ Copies(edges, i, "LOCATED_IN", b) = 1
           /\ FoundIn(i, "Garage") /\ FoundIn(i, "Kitchen")

\* the node kind a relationship of kind rel is meant to lead to
TargetKind(rel) ==
    CASE rel = "LOCATED_IN" -> "Location"
      [] rel = "BELONGS_TO" -> "Category"
      [] rel = "OWNED_BY" -> "Person"
      [] OTHER -> "none"

(***************************************************************************)
(* C17  Names are unique per kind only, and endpoints are resolved by      *)
(* kind and name.  A creation is rejected as a duplicate only when a node  *)
(* of its own kind carries the name, so a Location and a Category of one   *)
(* name are both created.  Every LOCATED_IN relationship leads from a      *)
(* stored Item to a stored Location, every BELONGS_TO from an Item to a    *)
(* Category, every OWNED_BY from an Item to a Person, and the              *)
(* relationships a linking call adds lead to nodes of its target kind      *)
(* that carry the name it was given.                                       *)
(***************************************************************************)
C17_KindScopedNames ==
    /\ (ret.op \in CreateOps /\ ret.error = "ConstraintViolation")
           => Named(before.nodes, KindOf(ret.op), ret.args[1]) # {}
    /\ \A e \in DOMAIN edges :
           /\ e.src \in nodes /\ e.src.kind = "Item"
           /\ e.dst \in nodes /\ e.dst.kind = TargetKind(e.rel)
    /\ ret.op \in LinkOps
           => \A e \in DOMAIN edges :
                  Copies(edges, e.src, e.rel, e.dst)
                      > Copies(before.edges, e.src, e.rel, e.dst)
                  => /\ e.rel = RelOf(ret.op)
                     /\ e.src \in ItemsBefore
                     /\ e.dst \in TargetsBefore

\* a Location and a Category both named Kitchen under their constraints,
\* and an item linked to the category, not to the location
C17_Witness ==
    /\ ret.op = "link_item_to_category" /\ ret.flag
    /\ ret.args[2] = "Kitchen"
    /\ {"Location", "Category"} \subseteq constraints
    /\ \E l \in Named(nodes, "Location", "Kitchen"),
           c \in Named(nodes, "Category", "Kitchen"), i \in ItemsBefore :
           /\ Copies(edges, i, "BELONGS_TO", c) = 1
           /\ \A r \in RelationType : Copies(edges, i, r, l) = 0

SessionHeld == {"run", "rows", "finally"}

(***************************************************************************)
(* C12  execute_query releases the session it opened before it returns or  *)
(* raises.  Every open session is the session of one call that is between  *)
(* opening and closing it, no two calls in flight share a session, a call  *)
(* that has returned or raised has left no session behind, and when no     *)
(* call is in flight no session is open.                                   *)
(***************************************************************************)
C12_SessionsReleased ==
    /\ \A x \in sessions :
           \E p \in Callers : /\ threads[p].pc \in SessionHeld
                              /\ threads[p].session = x.id
    /\ \A p, q \in Callers :
           (p # q /\ threads[p].pc \in SessionHeld /\ threads[q].pc \in SessionHeld)
           => threads[p].session # threads[q].session
    /\ \A p \in Callers :
           threads[p].pc \in SessionHeld
           => \E x \in sessions : x.id = threads[p].session
    /\ (\A p \in Callers : ~InCall(p)) => sessions = {}

\* one call has raised and has closed its session on the way out; the
\* call of another caller still holds its own
C12_Witness ==
    \E p, q \in Callers :
        /\ threads[p].op = "execute_query" /\ threads[p].pc = "returned"
        /\ threads[p].status = "error" /\ threads[p].session # 0
        /\ threads[q].pc = "rows"
        /\ sessions = {[id |-> threads[q].session, handle |-> threads[q].driver]}

\* the driver handles that are open
OpenHandles == {h \in DOMAIN handles : handles[h] = "open"}

(***************************************************************************)
(* C18  The life cycle of the gateway while its calls do not overlap.      *)
(* There is one gateway object; building it creates no driver handle; an   *)
(* execute_query that finds no handle creates one and uses it, and one     *)
(* that finds a handle uses that handle and creates none, so at most one   *)
(* handle is open at any time and it is the one the gateway holds; close   *)
(* closes the handle and resets the gateway, a close that finds no handle  *)
(* does nothing, and the next use creates a fresh handle.                  *)
(***************************************************************************)
C18_Lifecycle ==
    ~concurrent =>
        /\ Len(drivers) <= 1
        /\ Cardinality(OpenHandles) <= 1
        /\ \A h \in OpenHandles : \E g \in DOMAIN drivers : drivers[g] = h
        /\ \A p \in Callers :
               LET t == threads[p]
               IN t.pc = "returned" =>
                      /\ t.status = "ok" \/ t.op = "execute_query"
                      /\ t.op = "get_connection"
                             => /\ t.db = 1
                                /\ Len(handles) = t.made
                                /\ t.made = 0 => drivers[t.db] = 0
                      /\ (t.op = "execute_query" /\ t.held = 0)
                             => /\ Len(handles) = t.made + 1
                                /\ drivers[t.db] = t.made + 1
                                /\ t.driver = t.made + 1
                                /\ OpenHandles = {t.made + 1}
                      /\ (t.op = "execute_query" /\ t.held # 0)
                             => /\ Len(handles) = t.made
                                /\ drivers[t.db] = t.held
                                /\ t.driver = t.held
                                /\ OpenHandles = {t.held}
                      /\ t.op = "close"
                             => /\ drivers[t.db] = 0
                                /\ Len(handles) = t.made
                                /\ OpenHandles = {}

\* a use after close: the first handle is closed, the call has created the
\* second and the gateway holds it
C18_Witness ==
    /\ ~concurrent
    /\ \E p \in Callers :
           /\ threads[p].op = "execute_query" /\ threads[p].pc = "returned"
           /\ threads[p].held = 0 /\ threads[p].made = 1
           /\ handles = <<"closed", "open">>
           /\ drivers = <<2>>

(***************************************************************************)
(* C19  However the gateway calls of several callers interleave, one       *)
(* gateway object is built and every driver handle that is open is the     *)
(* one a gateway object holds: no handle is created, overwritten in        *)
(* _driver by the handle of another caller and left open.                  *)
(***************************************************************************)
C19_OneHandle ==
    /\ Len(drivers) <= 1
    /\ \A h \in OpenHandles : \E g \in DOMAIN drivers : drivers[g] = h

\* the names of the nodes of a kind that item i has a relationship rel to
LinkedNames(i, rel, kind) ==
    {t.props.name : t \in {n \in nodes : n.kind = kind
                                          /\ Copies(edges, i, rel, n) >= 1}}

(***************************************************************************)
(* C21  get_item_details of an Item that has several relationships of one  *)
(* kind returns one result for the item, not one per relationship.  The    *)
(* location, the category and the owner in it are each the name of a node  *)
(* the item has a relationship of that kind to, never another name, and    *)
(* none of them is None while the item has a relationship of its kind.     *)
(***************************************************************************)
C21_DetailsWithSeveralLinks ==
    (ret.op = "get_item_details" /\ ret.status = "ok" /\ ret.rows # <<>>)
    => /\ Len(ret.rows) = 1
       /\ \E i \in Named(nodes, "Item", ret.args[1]) :
              LET d == ret.rows[1]
                  right(value, names) ==
                      /\ value # Null => value \in names
                      /\ names # {} => value # Null
              IN /\ d.name = ret.args[1]
                 /\ right(d.location, LinkedNames(i, "LOCATED_IN", "Location"))
                 /\ right(d.category, LinkedNames(i, "BELONGS_TO", "Category"))
                 /\ right(d.owner, LinkedNames(i, "OWNED_BY", "Person"))

\* an item in the Garage and in the Kitchen: one result, naming the Kitchen
C21_Witness ==
    /\ ret.op = "get_item_details" /\ ret.status = "ok"
    /\ Len(ret.rows) = 1
    /\ ret.rows[1].location = "Kitchen"
    /\ \E i \in Named(nodes, "Item", ret.args[1]) :
           LinkedNames(i, "LOCATED_IN", "Location") = {"Garage", "Kitchen"}

\* the texts call_tool answers with
Texts ==
    {"Unknown tool", "Error", "Created", "Linked", "Failed to create link",
     "Details", "not found", "Items"}

(***************************************************************************)
(* C22  call_tool always returns a text.  When the operation it called     *)
(* raised (duplicate name, store failure) the text is the error text;      *)
(* arguments that lack a required key give the error text without a        *)
(* request to the store; a name that is not a tool gives the unknown-tool   *)
(* text, no request is made and the store is as it was; a link that        *)
(* returned false gives the failure message, and the success message is    *)
(* given only for a link that returned true.                               *)
(***************************************************************************)
C22_CallToolAnswers ==
    /\ ret.op \in ToolNames
           => /\ ret.text \in Texts
              /\ ret.status = "error" => ret.text = "Error"
              /\ (ret.op \in LinkOps /\ ret.status = "ok" /\ ~ret.flag)
                     => ret.text = "Failed to create link"
              /\ ret.text = "Linked" => (ret.op \in LinkOps /\ ret.flag)
    /\ ret.op = "call_tool"
           => /\ ret.status = "ok"
              /\ ret.requests = 0
              /\ Store = before
              /\ ret.text = IF ret.args[1] \in ToolNames
                            THEN "Error" ELSE "Unknown tool"

\* a name that is an operation but not a tool, on a store that holds nodes
C22_Witness ==
    /\ ret.op = "call_tool" /\ ret.args = <<"create_person">>
    /\ ret.text = "Unknown tool" /\ ret.requests = 0
    /\ nodes # {}

=============================================================================
